---- MODULE Spec2Model ----
(***************************************************************************)
(* Model of services/subscriptions/app.py, the Telegram topic subscription *)
(* API: one-time subscribe links, the webhook command processor, the dual  *)
(* chat/topic subscription index and the topic broadcast.                  *)
(*                                                                         *)
(* Strings are sequences of one-character strings, so that strip, lower,   *)
(* startswith, split, str() and int() are computed rather than assumed.    *)
(* A sorted list without duplicates (sorted(set)) is represented by the    *)
(* set of its elements.                                                    *)
(***************************************************************************)
EXTENDS Integers, Sequences, FiniteSets, TLC

\* ------------------------------------------------------------------ bounds
\* Link lifecycle runs: the clock runs from 0 to MaxTime and create_link is
\* called at most MaxLinks times.
MaxTime == 4
MaxLinks == 1
\* Subscription runs: the clock runs from 0 to MaxSubsTime and create_link is
\* called at most MaxTokens times.
MaxSubsTime == 1
MaxTokens == 2
\* Bot handle runs: create_link is called at most MaxHandleLinks times.
MaxHandleLinks == 2
\* Topic runs: every string of up to MaxTopicLen characters of TopicChars is
\* given as a topic, and so are the strings of MinLongLen to MaxLongLen
\* letters.
MaxTopicLen == 3
MinLongLen == 49
MaxLongLen == 51

\* ------------------------------------------------- configuration constants
\* SUBSCRIPTION_LINK_TTL_SECONDS and SUBSCRIPTION_LINK_STATUS_RETENTION_SECONDS
\* are read from the environment; small values keep expiry and retention
\* inside the clock's range.
LINK_TTL_SECONDS == 2
LINK_STATUS_RETENTION_SECONDS == 2

\* ----------------------------------------------------------------- strings
UpperChars == <<"A","B","C","D","E","F","G","H","I","J","K","L","M",
                "N","O","P","Q","R","S","T","U","V","W","X","Y","Z">>
LowerChars == <<"a","b","c","d","e","f","g","h","i","j","k","l","m",
                "n","o","p","q","r","s","t","u","v","w","x","y","z">>
DigitChars == <<"0","1","2","3","4","5","6","7","8","9">>

Range(s) == {s[i] : i \in DOMAIN s}

\* str.isspace for one character
IsSpace(c) == c \in {" ", "\t", "\n", "\r"}

\* str.lower for one character
LowerChar(c) ==
    IF \E i \in 1..26 : UpperChars[i] = c
    THEN LowerChars[CHOOSE i \in 1..26 : UpperChars[i] = c]
    ELSE c

\* str.lower()
Lower(s) == [i \in DOMAIN s |-> LowerChar(s[i])]

\* str.lstrip() / str.strip(): drop leading and trailing whitespace
RECURSIVE LStrip(_)
LStrip(s) == IF s # <<>> /\ IsSpace(Head(s)) THEN LStrip(Tail(s)) ELSE s

RECURSIVE RStrip(_)
RStrip(s) ==
    IF s # <<>> /\ IsSpace(s[Len(s)]) THEN RStrip(SubSeq(s, 1, Len(s) - 1)) ELSE s

Strip(s) == RStrip(LStrip(s))

\* str.startswith(p)
StartsWith(s, p) == Len(s) >= Len(p) /\ SubSeq(s, 1, Len(p)) = p

\* s[n:]
DropPrefix(s, n) == SubSeq(s, n + 1, Len(s))

\* text.split(" ", 1): split once at the first literal space
SplitSpaceOnce(s) ==
    IF \E i \in DOMAIN s : s[i] = " "
    THEN LET k == CHOOSE i \in DOMAIN s :
                      s[i] = " " /\ \A j \in 1..(i - 1) : s[j] # " "
         IN  <<SubSeq(s, 1, k - 1), SubSeq(s, k + 1, Len(s))>>
    ELSE <<s>>

\* text.split(maxsplit=1): split once at the first run of whitespace; leading
\* whitespace is skipped and the remainder keeps its trailing characters
SplitWhitespaceOnce(s) ==
    LET t == LStrip(s)
    IN  IF t = <<>> THEN <<>>
        ELSE IF \E i \in DOMAIN t : IsSpace(t[i])
        THEN LET k == CHOOSE i \in DOMAIN t :
                          IsSpace(t[i]) /\ \A j \in 1..(i - 1) : ~IsSpace(t[j])
                 rest == LStrip(SubSeq(t, k + 1, Len(t)))
             IN  IF rest = <<>> THEN <<SubSeq(t, 1, k - 1)>>
                 ELSE <<SubSeq(t, 1, k - 1), rest>>
        ELSE <<t>>

\* str(chat_id) for an integer
RECURSIVE StrNat(_)
StrNat(n) == IF n < 10 THEN <<DigitChars[n + 1]>>
             ELSE StrNat(n \div 10) \o <<DigitChars[(n % 10) + 1]>>

Str(n) == IF n < 0 THEN <<"-">> \o StrNat(0 - n) ELSE StrNat(n)

\* int(chat_id) for a decimal string written by Str
DigitVal(c) == (CHOOSE i \in DOMAIN DigitChars : DigitChars[i] = c) - 1

RECURSIVE IntNat(_)
IntNat(s) == IF Len(s) = 1 THEN DigitVal(s[1])
             ELSE 10 * IntNat(SubSeq(s, 1, Len(s) - 1)) + DigitVal(s[Len(s)])

ParseInt(s) == IF Head(s) = "-" THEN 0 - IntNat(Tail(s)) ELSE IntNat(s)

\* ---------------------------------------------------------------- literals
START_PREFIX == <<"s","u","b","s","c","r","i","b","e","_">>
CmdStart == <<"/","s","t","a","r","t">>
CmdTopics == <<"/","t","o","p","i","c","s">>
CmdUnsubscribe == <<"/","u","n","s","u","b","s","c","r","i","b","e">>
CmdUnsubscribeAll == CmdUnsubscribe \o <<"_","a","l","l">>
WordAll == <<"a","l","l">>

\* TOPIC_PATTERN = ^[a-z0-9][a-z0-9-]{1,49}$ applied with re.match
IsLowerOrDigit(c) ==
    \/ \E i \in 1..26 : LowerChars[i] = c
    \/ \E i \in 1..10 : DigitChars[i] = c

\* faulty variant of TOPIC_PATTERN: ^[a-z0-9][a-z0-9-]{2,49}$
TOPIC_PATTERN_from_three(s) ==
    /\ Len(s) >= 3
    /\ Len(s) <= 50
    /\ IsLowerOrDigit(s[1])
    /\ \A i \in 2..Len(s) : IsLowerOrDigit(s[i]) \/ s[i] = "-"

TOPIC_PATTERN(s) ==
    /\ Len(s) >= 2
    /\ Len(s) <= 50
    /\ IsLowerOrDigit(s[1])
    /\ \A i \in 2..Len(s) : IsLowerOrDigit(s[i]) \/ s[i] = "-"

\* _sanitize_topic: [ok |-> TRUE, topic |-> clean] or the 400 error
_sanitize_topic(topic) ==
    LET clean == Lower(Strip(topic))
    IN  IF TOPIC_PATTERN(clean) THEN [ok |-> TRUE, topic |-> clean]
        ELSE [ok |-> FALSE]

\* ------------------------------------------------------------ dictionaries
EmptyDict == [k \in {} |-> 0]

\* d.get(k, default) for a dict or a record
Get(d, k, default) == IF k \in DOMAIN d THEN d[k] ELSE default

\* d.get(k) or {}: a missing, None or empty value reads as the empty dict
GetDict(d, k) == IF k \in DOMAIN d THEN d[k] ELSE EmptyDict

\* "not d" for a dict or None
IsEmpty(d) == DOMAIN d = {}

\* str(d.get(k) or "")
GetStr(d, k) == IF k \in DOMAIN d THEN d[k] ELSE <<>>

\* d[k] = v
Put(d, k, v) == [x \in (DOMAIN d) \cup {k} |-> IF x = k THEN v ELSE d[x]]

\* del d[k]
Del(d, k) == [x \in (DOMAIN d) \ {k} |-> d[x]]

\* ------------------------------------------------------------ durable store
\* A document of the data directory: absent until first written.
NoFile == [exists |-> FALSE]

\* _read_json: the caller's default when the document does not exist
_read_json(file, default) == IF file.exists THEN file.doc ELSE default

\* _write_json_atomic: the whole snapshot replaces the document
_write_json_atomic(payload) == [exists |-> TRUE, doc |-> payload]

EmptySubs == [chats |-> EmptyDict, topics |-> EmptyDict]

\* ------------------------------------------------------------------ pruning
\* faulty variant of _prune_pending: nothing is pruned
_prune_pending_keeps_all(pending, t) == pending

\* faulty variant of _prune_pending: a record is kept through the second it
\* expires in (>= instead of >)
_prune_pending_inclusive(pending, t) ==
    LET keep == {token \in DOMAIN pending : Get(pending[token], "expires_at", 0) >= t}
    IN  [token \in keep |-> pending[token]]

\* _prune_pending: keep the records that expire strictly after now
_prune_pending(pending, t) ==
    LET keep == {token \in DOMAIN pending : Get(pending[token], "expires_at", 0) > t}
    IN  [token \in keep |-> pending[token]]

\* faulty variant of _prune_link_status: a record is kept through the second
\* its retention ends in (>= instead of >)
_prune_link_status_inclusive(statuses, t) ==
    LET kept(record) ==
            LET expires_at == Get(record, "expires_at", 0)
                status == Get(record, "status", "")
                confirmed_at == Get(record, "confirmed_at", 0)
            IN  \/ status = "pending" /\ (expires_at + LINK_STATUS_RETENTION_SECONDS) >= t
                \/ status = "confirmed" /\ (confirmed_at + LINK_STATUS_RETENTION_SECONDS) >= t
        keep == {token \in DOMAIN statuses : kept(statuses[token])}
    IN  [token \in keep |-> statuses[token]]

\* _prune_link_status: keep pending records until expires_at + retention and
\* confirmed records until confirmed_at + retention; drop everything else
_prune_link_status(statuses, t) ==
    LET kept(record) ==
            LET expires_at == Get(record, "expires_at", 0)
                status == Get(record, "status", "")
                confirmed_at == Get(record, "confirmed_at", 0)
            IN  \/ status = "pending" /\ (expires_at + LINK_STATUS_RETENTION_SECONDS) > t
                \/ status = "confirmed" /\ (confirmed_at + LINK_STATUS_RETENTION_SECONDS) > t
        keep == {token \in DOMAIN statuses : kept(statuses[token])}
    IN  [token \in keep |-> statuses[token]]

\* ------------------------------------------------------- subscription store
\* Python's None, distinct from every string of the model
None == <<"None">>

\* _chat_topics: the chat's topic set, empty when the chat is unknown
_chat_topics(subs, chat_id) ==
    LET chats == Get(subs, "chats", EmptyDict)
        chat_data == Get(chats, Str(chat_id), EmptyDict)
    IN  {Lower(Strip(topic)) : topic \in
            {x \in Get(chat_data, "topics", {}) : Strip(x) # <<>>}}

\* faulty variant of _save_chat_topics: the chat record is rewritten but the
\* chat is not removed from the topics it left
_save_chat_topics_no_removal(subs, chat_id, topics_for_chat, t) ==
    LET chats == Get(subs, "chats", EmptyDict)
        topics == Get(subs, "topics", EmptyDict)
        chat_key == Str(chat_id)
        existing == Get(chats, chat_key, EmptyDict)
    IN  [chats |-> Put(chats, chat_key,
                       [chat_id |-> chat_id,
                        username |-> Get(existing, "username", None),
                        first_name |-> Get(existing, "first_name", None),
                        last_name |-> Get(existing, "last_name", None),
                        topics |-> topics_for_chat,
                        updated_at |-> t]),
         topics |-> [topic \in (DOMAIN topics) \cup topics_for_chat |->
                        Get(topics, topic, {}) \cup
                            (IF topic \in topics_for_chat THEN {chat_key} ELSE {})]]

\* faulty variant of _save_chat_topics: the chat is dropped from the topics it
\* left, but a topic left without chats keeps its (empty) entry
_save_chat_topics_keeping_empty(subs, chat_id, topics_for_chat, t) ==
    LET chats == Get(subs, "chats", EmptyDict)
        topics == Get(subs, "topics", EmptyDict)
        chat_key == Str(chat_id)
        existing == Get(chats, chat_key, EmptyDict)
    IN  [chats |-> Put(chats, chat_key,
                       [chat_id |-> chat_id,
                        username |-> Get(existing, "username", None),
                        first_name |-> Get(existing, "first_name", None),
                        last_name |-> Get(existing, "last_name", None),
                        topics |-> topics_for_chat,
                        updated_at |-> t]),
         topics |-> [topic \in (DOMAIN topics) \cup topics_for_chat |->
                        IF topic \in topics_for_chat
                        THEN Get(topics, topic, {}) \cup {chat_key}
                        ELSE {cid \in topics[topic] : cid # chat_key}]]

\* _save_chat_topics: rewrite the chat record, drop the chat from every topic
\* (deleting topics left empty), then add it to each topic of the new set
_save_chat_topics(subs, chat_id, topics_for_chat, t) ==
    LET chats == Get(subs, "chats", EmptyDict)
        topics == Get(subs, "topics", EmptyDict)
        chat_key == Str(chat_id)
        existing == Get(chats, chat_key, EmptyDict)
        newChats == Put(chats, chat_key,
                        [chat_id |-> chat_id,
                         username |-> Get(existing, "username", None),
                         first_name |-> Get(existing, "first_name", None),
                         last_name |-> Get(existing, "last_name", None),
                         topics |-> topics_for_chat,
                         updated_at |-> t])
        filtered_ids(topic) == {cid \in topics[topic] : cid # chat_key}
        kept == {topic \in DOMAIN topics : filtered_ids(topic) # {}}
        removed == [topic \in kept |-> filtered_ids(topic)]
        added == [topic \in kept \cup topics_for_chat |->
                     IF topic \in topics_for_chat
                     THEN Get(removed, topic, {}) \cup {chat_key}
                     ELSE removed[topic]]
    IN  [chats |-> newChats, topics |-> added]

\* ------------------------------------------------------------- create_link
\* secrets.token_urlsafe(16): the i-th token of a run; tokens never repeat
TokenStr(i) == <<"k">> \o Str(i)

\* str.lstrip("@")
RECURSIVE LStripAt(_)
LStripAt(s) == IF s # <<>> /\ Head(s) = "@" THEN LStripAt(Tail(s)) ELSE s

\* faulty variant of _resolved_bot_username: an unresolved handle is returned
\* as the empty handle instead of the 503 error
_resolved_bot_username_defaulting(cache, getMe) ==
    IF cache # None /\ cache # <<>>
    THEN [ok |-> TRUE, username |-> cache, cache |-> cache, calls |-> <<>>]
    ELSE LET call == <<[method |-> "getMe", ok |-> getMe.ok]>>
             username == IF getMe.ok
                         THEN Lower(LStripAt(Strip(GetStr(getMe.result, "username"))))
                         ELSE <<>>
         IN  [ok |-> TRUE, username |-> username,
              cache |-> IF username = <<>> THEN cache ELSE username,
              calls |-> call]

\* faulty variant of _resolved_bot_username: a resolved handle is not kept
_resolved_bot_username_uncached(cache, getMe) ==
    IF cache # None /\ cache # <<>>
    THEN [ok |-> TRUE, username |-> cache, cache |-> cache, calls |-> <<>>]
    ELSE LET call == <<[method |-> "getMe", ok |-> getMe.ok]>>
             username == IF getMe.ok
                         THEN Lower(LStripAt(Strip(GetStr(getMe.result, "username"))))
                         ELSE <<>>
         IN  IF username = <<>>
             THEN [ok |-> FALSE, cache |-> cache, calls |-> call]
             ELSE [ok |-> TRUE, username |-> username, cache |-> cache,
                   calls |-> call]

\* _resolved_bot_username: the cached handle, else getMe; 503 when getMe fails
\* or carries no username; a resolved handle is cached
_resolved_bot_username(cache, getMe) ==
    IF cache # None /\ cache # <<>>
    THEN [ok |-> TRUE, username |-> cache, cache |-> cache, calls |-> <<>>]
    ELSE LET call == <<[method |-> "getMe", ok |-> getMe.ok]>>
         IN  IF ~getMe.ok
             THEN [ok |-> FALSE, cache |-> cache, calls |-> call]
             ELSE LET username ==
                          Lower(LStripAt(Strip(GetStr(getMe.result, "username"))))
                  IN  IF username = <<>>
                      THEN [ok |-> FALSE, cache |-> cache, calls |-> call]
                      ELSE [ok |-> TRUE, username |-> username,
                            cache |-> username, calls |-> call]

\* POST /api/telegram/subscribe as a function of the documents and the request
create_subscription_link(pf, sf, cache, t, token, rawTopic, getMe) ==
    LET clean == _sanitize_topic(rawTopic)
    IN  IF ~clean.ok
        THEN [code |-> 400, pendingFile |-> pf, statusFile |-> sf, cache |-> cache,
              calls |-> <<>>]
        ELSE LET bot == _resolved_bot_username(cache, getMe)
             IN  IF ~bot.ok
                 THEN [code |-> 503, pendingFile |-> pf, statusFile |-> sf,
                       cache |-> bot.cache, calls |-> bot.calls]
                 ELSE LET pending == _prune_pending(_read_json(pf, EmptyDict), t)
                          statuses == _prune_link_status(_read_json(sf, EmptyDict), t)
                      IN  [code |-> 200,
                           pendingFile |-> _write_json_atomic(
                               Put(pending, token,
                                   [topic |-> clean.topic,
                                    created_at |-> t,
                                    expires_at |-> t + LINK_TTL_SECONDS])),
                           statusFile |-> _write_json_atomic(
                               Put(statuses, token,
                                   [topic |-> clean.topic,
                                    created_at |-> t,
                                    expires_at |-> t + LINK_TTL_SECONDS,
                                    status |-> "pending"])),
                           cache |-> bot.cache,
                           calls |-> bot.calls,
                           topic |-> clean.topic,
                           bot_username |-> bot.username,
                           token |-> token,
                           start_param |-> START_PREFIX \o token,
                           expires_in_seconds |-> LINK_TTL_SECONDS]

\* ------------------------------------------------------------------ status
\* The payload of get_subscription_link_status for a token, read from the
\* pruned statuses: a pending record whose expires_at has passed reads expired
status_payload(statuses, token, t) ==
    IF token \notin DOMAIN statuses
    THEN [ok |-> TRUE, status |-> "invalid"]
    ELSE LET record == statuses[token]
             expires_at == Get(record, "expires_at", 0)
             stored == Get(record, "status", "invalid")
             status == IF stored = "pending" /\ expires_at <= t THEN "expired"
                       ELSE stored
             payload == [ok |-> TRUE,
                         status |-> status,
                         topic |-> Lower(Strip(GetStr(record, "topic"))),
                         expires_at |-> expires_at,
                         expires_in_seconds |->
                             IF expires_at - t > 0 THEN expires_at - t ELSE 0]
         IN  IF status = "confirmed"
             THEN payload @@ [confirmed_at |-> Get(record, "confirmed_at", t)]
             ELSE payload

\* faulty variant of get_subscription_link_status: the recomputed status is
\* written into the record before the document is saved
get_subscription_link_status_storing_expiry(sf, t, start_param) ==
    LET token == Strip(DropPrefix(start_param, Len(START_PREFIX)))
    IN  IF ~StartsWith(start_param, START_PREFIX) \/ token = <<>>
        THEN [code |-> 400, statusFile |-> sf]
        ELSE LET statuses == _prune_link_status(_read_json(sf, EmptyDict), t)
                 payload == status_payload(statuses, token, t)
                 stored == IF token \in DOMAIN statuses
                           THEN [statuses EXCEPT ![token].status = payload.status]
                           ELSE statuses
             IN  [code |-> 200,
                  statusFile |-> _write_json_atomic(stored),
                  token |-> token,
                  payload |-> payload]

\* GET /api/telegram/subscribe/{start_param}/status as a function of the
\* LinkStatus document: the pruned document is written back, then read
get_subscription_link_status(sf, t, start_param) ==
    LET token == Strip(DropPrefix(start_param, Len(START_PREFIX)))
    IN  IF ~StartsWith(start_param, START_PREFIX) \/ token = <<>>
        THEN [code |-> 400, statusFile |-> sf]
        ELSE LET statuses == _prune_link_status(_read_json(sf, EmptyDict), t)
             IN  [code |-> 200,
                  statusFile |-> _write_json_atomic(statuses),
                  token |-> token,
                  payload |-> status_payload(statuses, token, t)]

\* ----------------------------------------------------------------- webhook
\* What a webhook request leaves behind: the HTTP status, the branch taken,
\* the three documents and the gateway calls made.  A gateway call that fails
\* raises RuntimeError out of the handler, which the framework answers 500.
Result(code, outcome, pf, sf, uf, calls) ==
    [code |-> code, outcome |-> outcome, pendingFile |-> pf, statusFile |-> sf,
     subsFile |-> uf, calls |-> calls]

\* _send_message as the last statement of a branch: one sendMessage call
Replied(outcome, pf, sf, uf, chat_id, text, gw) ==
    Result(IF gw THEN 200 ELSE 500, outcome, pf, sf, uf,
           <<[method |-> "sendMessage", chat_id |-> chat_id, text |-> text, ok |-> gw]>>)

\* a branch's result together with the order in which the branch read and
\* wrote the documents and sent its reply
Traced(r, io) == r @@ [io |-> io]

\* faulty variant of unsubscribe_all: the reply is sent before the document is
\* written, so a reply that fails leaves the document as it was
unsubscribe_all_replying_first(pf, sf, uf, chat_id, t, gw) ==
    LET subs == _read_json(uf, EmptySubs)
        topics_for_chat == _chat_topics(subs, chat_id)
    IN  IF topics_for_chat # {}
        THEN Traced(Replied("unsubscribed_all", pf, sf,
                     IF gw
                     THEN _write_json_atomic(_save_chat_topics(subs, chat_id, {}, t))
                     ELSE uf,
                     chat_id, <<"Unsubscribed from all topics.">>, gw),
                         IF gw THEN <<"read_subs", "send", "write_subs">>
                         ELSE <<"read_subs", "send">>)
        ELSE Traced(Replied("no_topics", pf, sf, uf, chat_id,
                     <<"You are not subscribed to any topics.">>, gw),
                         <<"read_subs", "send">>)

\* the "/unsubscribe all" and "/unsubscribe_all" bodies
unsubscribe_all(pf, sf, uf, chat_id, t, gw) ==
    LET subs == _read_json(uf, EmptySubs)
        topics_for_chat == _chat_topics(subs, chat_id)
    IN  IF topics_for_chat # {}
        THEN Traced(Replied("unsubscribed_all", pf, sf,
                     _write_json_atomic(_save_chat_topics(subs, chat_id, {}, t)),
                     chat_id, <<"Unsubscribed from all topics.">>, gw),
                         <<"read_subs", "write_subs", "send">>)
        ELSE Traced(Replied("no_topics", pf, sf, uf, chat_id,
                     <<"You are not subscribed to any topics.">>, gw),
                         <<"read_subs", "send">>)

\* faulty variant of unsubscribe_one: the chat's topics are saved again when
\* the topic is not among them
unsubscribe_one_saving_always(pf, sf, uf, chat_id, raw, t, gw) ==
    LET clean == _sanitize_topic(Strip(raw))
    IN  IF ~clean.ok
        THEN Traced(Replied("invalid_topic", pf, sf, uf, chat_id,
                     <<"Topic format is invalid. Use lowercase letters, numbers, and hyphens.">>, gw),
                         <<"send">>)
        ELSE LET subs == _read_json(uf, EmptySubs)
                 topics_for_chat == _chat_topics(subs, chat_id)
                 saved == _write_json_atomic(
                              _save_chat_topics(subs, chat_id,
                                                topics_for_chat \ {clean.topic}, t))
             IN  IF clean.topic \in topics_for_chat
                 THEN Traced(Replied("unsubscribed", pf, sf, saved,
                              chat_id, <<"Unsubscribed from: ", clean.topic>>, gw),
                                  <<"read_subs", "write_subs", "send">>)
                 ELSE Traced(Replied("not_subscribed", pf, sf, saved, chat_id,
                              <<"You are not subscribed to: ", clean.topic>>, gw),
                                  <<"read_subs", "write_subs", "send">>)

\* the "/unsubscribe <topic>" body
unsubscribe_one(pf, sf, uf, chat_id, raw, t, gw) ==
    LET clean == _sanitize_topic(Strip(raw))
    IN  IF ~clean.ok
        THEN Traced(Replied("invalid_topic", pf, sf, uf, chat_id,
                     <<"Topic format is invalid. Use lowercase letters, numbers, and hyphens.">>, gw),
                         <<"send">>)
        ELSE LET subs == _read_json(uf, EmptySubs)
                 topics_for_chat == _chat_topics(subs, chat_id)
             IN  IF clean.topic \in topics_for_chat
                 THEN Traced(Replied("unsubscribed", pf, sf,
                              _write_json_atomic(
                                  _save_chat_topics(subs, chat_id,
                                                    topics_for_chat \ {clean.topic}, t)),
                              chat_id, <<"Unsubscribed from: ", clean.topic>>, gw),
                                  <<"read_subs", "write_subs", "send">>)
                 ELSE Traced(Replied("not_subscribed", pf, sf, uf, chat_id,
                              <<"You are not subscribed to: ", clean.topic>>, gw),
                                  <<"read_subs", "send">>)

\* faulty variant of webhook_commands: a text that is no command is answered
\* with a help message instead of being dropped
webhook_commands_replying_unknown(pf, sf, uf, text, chat_id, t, gw) ==
    IF text = CmdStart
    THEN Traced(Replied("welcome", pf, sf, uf, chat_id, <<"Welcome.">>, gw), <<"send">>)
    ELSE IF text = CmdTopics
    THEN LET topics_for_chat == _chat_topics(_read_json(uf, EmptySubs), chat_id)
         IN  IF topics_for_chat # {}
             THEN Traced(Replied("topics", pf, sf, uf, chat_id,
                          <<"You are subscribed to: ", topics_for_chat>>, gw),
                              <<"read_subs", "send">>)
             ELSE Traced(Replied("topics", pf, sf, uf, chat_id,
                          <<"You are not subscribed to any topics yet.">>, gw),
                              <<"read_subs", "send">>)
    ELSE IF StartsWith(text, CmdUnsubscribe)
    THEN LET parts == SplitWhitespaceOnce(text)
         IN  IF Len(parts) = 1
             THEN Traced(Replied("usage", pf, sf, uf, chat_id,
                          <<"Usage: /unsubscribe <topic> or /unsubscribe_all">>, gw),
                              <<"send">>)
             ELSE IF Lower(Strip(parts[2])) = WordAll
             THEN unsubscribe_all(pf, sf, uf, chat_id, t, gw)
             ELSE unsubscribe_one(pf, sf, uf, chat_id, parts[2], t, gw)
    ELSE IF text = CmdUnsubscribeAll
    THEN unsubscribe_all(pf, sf, uf, chat_id, t, gw)
    ELSE Traced(Replied("unknown", pf, sf, uf, chat_id, <<"Unknown command.">>, gw),
                <<"send">>)

\* the commands other than "/start <payload>"
webhook_commands(pf, sf, uf, text, chat_id, t, gw) ==
    IF text = CmdStart
    THEN Traced(Replied("welcome", pf, sf, uf, chat_id, <<"Welcome.">>, gw), <<"send">>)
    ELSE IF text = CmdTopics
    THEN LET topics_for_chat == _chat_topics(_read_json(uf, EmptySubs), chat_id)
         IN  IF topics_for_chat # {}
             THEN Traced(Replied("topics", pf, sf, uf, chat_id,
                          <<"You are subscribed to: ", topics_for_chat>>, gw),
                              <<"read_subs", "send">>)
             ELSE Traced(Replied("topics", pf, sf, uf, chat_id,
                          <<"You are not subscribed to any topics yet.">>, gw),
                              <<"read_subs", "send">>)
    ELSE IF StartsWith(text, CmdUnsubscribe)
    THEN LET parts == SplitWhitespaceOnce(text)
         IN  IF Len(parts) = 1
             THEN Traced(Replied("usage", pf, sf, uf, chat_id,
                          <<"Usage: /unsubscribe <topic> or /unsubscribe_all">>, gw),
                              <<"send">>)
             ELSE IF Lower(Strip(parts[2])) = WordAll
             THEN unsubscribe_all(pf, sf, uf, chat_id, t, gw)
             ELSE unsubscribe_one(pf, sf, uf, chat_id, parts[2], t, gw)
    ELSE IF text = CmdUnsubscribeAll
    THEN unsubscribe_all(pf, sf, uf, chat_id, t, gw)
    ELSE Traced(Result(200, "ignored", pf, sf, uf, <<>>), <<>>)

\* faulty variant of pending_pop: the record is read but not removed
pending_pop_keeps_record(pending, token) ==
    [record |-> GetDict(pending, token), rest |-> pending]

\* faulty variant of pending_pop: a token that is not found empties the set
pending_pop_clearing(pending, token) ==
    [record |-> GetDict(pending, token),
     rest |-> IF token \in DOMAIN pending THEN Del(pending, token) ELSE EmptyDict]

\* pending.pop(token, None): the record (empty when absent) and what remains
pending_pop(pending, token) ==
    [record |-> GetDict(pending, token), rest |-> Del(pending, token)]

\* faulty variant of confirm_subscription: the chat record gets the topic but
\* the chat is not added under the topic
confirm_subscription_without_index(subs, chat_id, topic, from_user, t) ==
    LET chats == Get(subs, "chats", EmptyDict)
        topics == Get(subs, "topics", EmptyDict)
    IN  [chats |-> Put(chats, Str(chat_id),
                       [chat_id |-> chat_id,
                        username |-> Get(from_user, "username", None),
                        first_name |-> Get(from_user, "first_name", None),
                        last_name |-> Get(from_user, "last_name", None),
                        topics |-> _chat_topics(subs, chat_id) \cup {topic},
                        updated_at |-> t]),
         topics |-> topics]

\* the confirmation's update of the subscriptions document: the chat record
\* with the topic added and the sender's identity, and the chat under the topic
confirm_subscription(subs, chat_id, topic, from_user, t) ==
    LET chats == Get(subs, "chats", EmptyDict)
        topics == Get(subs, "topics", EmptyDict)
        current_topics == _chat_topics(subs, chat_id) \cup {topic}
        chat_key == Str(chat_id)
    IN  [chats |-> Put(chats, chat_key,
                       [chat_id |-> chat_id,
                        username |-> Get(from_user, "username", None),
                        first_name |-> Get(from_user, "first_name", None),
                        last_name |-> Get(from_user, "last_name", None),
                        topics |-> current_topics,
                        updated_at |-> t]),
         topics |-> Put(topics, topic, Get(topics, topic, {}) \cup {Str(chat_id)})]

\* the confirmation's LinkStatus record
confirmed_status(record, topic, t) ==
    [topic |-> topic,
     created_at |-> Get(record, "created_at", t),
     expires_at |-> Get(record, "expires_at", t),
     status |-> "confirmed",
     confirmed_at |-> t]

\* "/start <payload>": consume the token, subscribe the chat, record confirmed
webhook_start(pf, sf, uf, text, message, chat_id, t, gw) ==
    LET payload == Strip(SplitSpaceOnce(text)[2])
        token == Strip(DropPrefix(payload, Len(START_PREFIX)))
    IN  IF ~StartsWith(payload, START_PREFIX) \/ token = <<>>
        THEN Traced(Result(200, "ignored", pf, sf, uf, <<>>), <<>>)
        ELSE LET popped == pending_pop(_prune_pending(_read_json(pf, EmptyDict), t), token)
                 record == popped.record
                 pf2 == _write_json_atomic(popped.rest)
             IN  IF IsEmpty(record)
                 THEN Traced(Replied("invalid_link", pf2, sf, uf, chat_id,
                              <<"This subscribe link is invalid or expired. Please generate a new one from the website.">>, gw),
                                  <<"read_pending", "write_pending", "send">>)
                 ELSE LET topic == Lower(Strip(Get(record, "topic", <<>>)))
                      IN  IF topic = <<>>
                          THEN Traced(Replied("no_topic", pf2, sf, uf, chat_id,
                                       <<"Could not process this subscription token. Please try again.">>, gw),
                                           <<"read_pending", "write_pending", "send">>)
                          ELSE LET subs == confirm_subscription(
                                               _read_json(uf, EmptySubs), chat_id, topic,
                                               GetDict(message, "from"), t)
                                   statuses == Put(
                                       _prune_link_status(_read_json(sf, EmptyDict), t),
                                       token, confirmed_status(record, topic, t))
                                   replied == Traced(Replied("confirmed", pf2,
                                       _write_json_atomic(statuses),
                                       _write_json_atomic(subs), chat_id,
                                       <<"Subscribed successfully. You will now receive alerts for: ", topic>>,
                                       gw),
                                           <<"read_pending", "write_pending", "read_subs", "write_subs",
                                             "read_status", "write_status", "send">>)
                               IN  replied @@ [token |-> token, topic |-> topic,
                                               chat_id |-> chat_id]

\* faulty variant of telegram_webhook: a request without the secret header is
\* let through
telegram_webhook_accepting_no_header(pf, sf, uf, secret, t, header, update, gw) ==
    IF secret # <<>> /\ header # None /\ header # secret
    THEN Traced(Result(401, "unauthorized", pf, sf, uf, <<>>), <<>>)
    ELSE LET message == IF ~IsEmpty(GetDict(update, "message"))
                        THEN update.message
                        ELSE GetDict(update, "edited_message")
             text == Strip(GetStr(message, "text"))
             chat == GetDict(message, "chat")
         IN  IF "id" \notin DOMAIN chat
             THEN Traced(Result(200, "no_chat", pf, sf, uf, <<>>), <<>>)
             ELSE IF ~StartsWith(text, CmdStart) \/ " " \notin Range(text)
             THEN webhook_commands(pf, sf, uf, text, chat.id, t, gw)
             ELSE webhook_start(pf, sf, uf, text, message, chat.id, t, gw)

\* POST /api/telegram/webhook as a function of the documents and the request
telegram_webhook(pf, sf, uf, secret, t, header, update, gw) ==
    IF secret # <<>> /\ header # secret
    THEN Traced(Result(401, "unauthorized", pf, sf, uf, <<>>), <<>>)
    ELSE LET message == IF ~IsEmpty(GetDict(update, "message"))
                        THEN update.message
                        ELSE GetDict(update, "edited_message")
             text == Strip(GetStr(message, "text"))
             chat == GetDict(message, "chat")
         IN  IF "id" \notin DOMAIN chat
             THEN Traced(Result(200, "no_chat", pf, sf, uf, <<>>), <<>>)
             ELSE IF ~StartsWith(text, CmdStart) \/ " " \notin Range(text)
             THEN webhook_commands(pf, sf, uf, text, chat.id, t, gw)
             ELSE webhook_start(pf, sf, uf, text, message, chat.id, t, gw)

\* ---------------------------------------------------------------- chat ids
\* The order in which a stored sorted list of chat keys is read: sorted()
\* orders strings character by character
CharOrder == <<"-">> \o DigitChars
CharRank(c) == CHOOSE i \in DOMAIN CharOrder : CharOrder[i] = c

RECURSIVE LexLess(_, _)
LexLess(a, b) ==
    IF a = <<>> THEN b # <<>>
    ELSE IF b = <<>> THEN FALSE
    ELSE IF Head(a) = Head(b) THEN LexLess(Tail(a), Tail(b))
    ELSE CharRank(Head(a)) < CharRank(Head(b))

RECURSIVE SortedList(_)
SortedList(S) ==
    IF S = {} THEN <<>>
    ELSE LET first == CHOOSE x \in S : \A y \in S : x = y \/ LexLess(x, y)
         IN  <<first>> \o SortedList(S \ {first})

\* [int(chat_id) for chat_id in subs["topics"].get(topic, [])]
topic_chat_ids(uf, topic) ==
    LET subs == _read_json(uf, [topics |-> EmptyDict])
        keys == SortedList(Get(Get(subs, "topics", EmptyDict), topic, {}))
    IN  [i \in DOMAIN keys |-> ParseInt(keys[i])]

\* GET /api/telegram/topics/{topic}/chat-ids
get_chat_ids_for_topic(uf, rawTopic) ==
    LET clean == _sanitize_topic(rawTopic)
    IN  IF ~clean.ok THEN [code |-> 400]
        ELSE [code |-> 200, topic |-> clean.topic,
              chat_ids |-> topic_chat_ids(uf, clean.topic)]

\* ------------------------------------------------------------------ notify
\* "if body.text": the field is present and not empty
Truthy(body, field) == field \in DOMAIN body /\ body[field] # <<>>

\* faulty variant of deliver: a failed sendMessage is tried a second time
deliver_with_retry(chat_id, body, gateway) ==
    LET textCall == [method |-> "sendMessage", chat_id |-> chat_id,
                     ok |-> gateway[<<chat_id, "sendMessage">>]]
        audioCall == [method |-> "sendAudio", chat_id |-> chat_id,
                      ok |-> gateway[<<chat_id, "sendAudio">>]]
    IN  IF Truthy(body, "text") /\ ~textCall.ok
        THEN [ok |-> FALSE, calls |-> <<textCall, textCall>>]
        ELSE LET sent == IF Truthy(body, "text") THEN <<textCall>> ELSE <<>>
             IN  IF Truthy(body, "audio_url")
                 THEN [ok |-> audioCall.ok, calls |-> sent \o <<audioCall>>]
                 ELSE [ok |-> TRUE, calls |-> sent]

\* One iteration of the delivery loop.  gateway[<<chat_id, method>>] tells
\* whether that call to the messaging gateway succeeds; a failing call raises
\* and the rest of the iteration is skipped.
deliver(chat_id, body, gateway) ==
    LET textCall == [method |-> "sendMessage", chat_id |-> chat_id,
                     ok |-> gateway[<<chat_id, "sendMessage">>]]
        audioCall == [method |-> "sendAudio", chat_id |-> chat_id,
                      ok |-> gateway[<<chat_id, "sendAudio">>]]
    IN  IF Truthy(body, "text") /\ ~textCall.ok
        THEN [ok |-> FALSE, calls |-> <<textCall>>]
        ELSE LET sent == IF Truthy(body, "text") THEN <<textCall>> ELSE <<>>
             IN  IF Truthy(body, "audio_url")
                 THEN [ok |-> audioCall.ok, calls |-> sent \o <<audioCall>>]
                 ELSE [ok |-> TRUE, calls |-> sent]

\* faulty variant of notify_loop: the first failed delivery ends the loop
RECURSIVE notify_loop_stopping_at_failure(_, _, _)
notify_loop_stopping_at_failure(chat_ids, body, gateway) ==
    IF chat_ids = <<>>
    THEN [delivered |-> 0, failed |-> <<>>, calls |-> <<>>]
    ELSE LET one == deliver(Head(chat_ids), body, gateway)
             rest == notify_loop_stopping_at_failure(Tail(chat_ids), body, gateway)
         IN  IF ~one.ok
             THEN [delivered |-> 0,
                   failed |-> <<[chat_id |-> Head(chat_ids), error |-> "RuntimeError"]>>,
                   calls |-> one.calls]
             ELSE [delivered |-> 1 + rest.delivered, failed |-> rest.failed,
                   calls |-> one.calls \o rest.calls]

\* for chat_id in chat_ids: try ... delivered += 1 / except: failed.append
RECURSIVE notify_loop(_, _, _)
notify_loop(chat_ids, body, gateway) ==
    IF chat_ids = <<>>
    THEN [delivered |-> 0, failed |-> <<>>, calls |-> <<>>]
    ELSE LET one == deliver(Head(chat_ids), body, gateway)
             rest == notify_loop(Tail(chat_ids), body, gateway)
         IN  [delivered |-> (IF one.ok THEN 1 ELSE 0) + rest.delivered,
              failed |-> (IF one.ok THEN <<>>
                          ELSE <<[chat_id |-> Head(chat_ids), error |-> "RuntimeError"]>>)
                         \o rest.failed,
              calls |-> one.calls \o rest.calls]

\* faulty variant of notify_topic_subscribers: the body is not looked at before
\* the subscribers are resolved
notify_topic_subscribers_unchecked_body(uf, rawTopic, body, gateway) ==
    LET clean == _sanitize_topic(rawTopic)
    IN  IF ~clean.ok
        THEN [code |-> 400, calls |-> <<>>]
        ELSE LET chat_ids == topic_chat_ids(uf, clean.topic)
                 sent == notify_loop(chat_ids, body, gateway)
             IN  [code |-> 200,
                  topic |-> clean.topic,
                  chat_ids |-> chat_ids,
                  subscriber_count |-> Len(chat_ids),
                  delivered |-> sent.delivered,
                  failed |-> sent.failed,
                  calls |-> sent.calls]

\* POST /api/telegram/topics/{topic}/notify
notify_topic_subscribers(uf, rawTopic, body, gateway) ==
    LET clean == _sanitize_topic(rawTopic)
    IN  IF ~clean.ok \/ (~Truthy(body, "text") /\ ~Truthy(body, "audio_url"))
        THEN [code |-> 400, calls |-> <<>>]
        ELSE LET chat_ids == topic_chat_ids(uf, clean.topic)
                 sent == notify_loop(chat_ids, body, gateway)
             IN  [code |-> 200,
                  topic |-> clean.topic,
                  chat_ids |-> chat_ids,
                  subscriber_count |-> Len(chat_ids),
                  delivered |-> sent.delivered,
                  failed |-> sent.failed,
                  calls |-> sent.calls]

\* -------------------------------------------------------------------- state
VARIABLES
    now,                  \* int(time.time())
    pendingFile,          \* PENDING_FILE
    statusFile,           \* LINK_STATUS_FILE
    subsFile,             \* SUBSCRIPTIONS_FILE
    _BOT_USERNAME_CACHE,  \* the cached bot handle, None until resolved
    WEBHOOK_SECRET,       \* TELEGRAM_WEBHOOK_SECRET, empty when not configured
    tokensIssued,         \* how many tokens secrets.token_urlsafe has produced
    issued,               \* history: token -> topic, time and start parameter
    consumed,             \* history: token -> the confirmation that consumed it
    reported,             \* history: token -> confirmed/expired reports so far
    last,                 \* the request being answered: input, response, calls
    inflight              \* requests served concurrently: position and local values

vars == <<now, pendingFile, statusFile, subsFile, _BOT_USERNAME_CACHE,
          WEBHOOK_SECRET, tokensIssued, issued, consumed, reported, last,
          inflight>>

files == <<pendingFile, statusFile, subsFile>>
config == <<_BOT_USERNAME_CACHE, WEBHOOK_SECRET>>
history == <<issued, consumed, reported>>

\* no request is being answered
Idle == [op |-> "idle"]

\* what the caller sees of a handler's result
Response(r) ==
    [k \in (DOMAIN r) \ {"pendingFile", "statusFile", "subsFile", "cache"} |-> r[k]]

BotName == <<"b","o","t">>
SecretValue == <<"s","3">>
\* a secret header that is not the configured one
WrongSecret == <<"s","4">>

\* The process starts on an empty data directory, with TELEGRAM_BOT_USERNAME
\* and TELEGRAM_WEBHOOK_SECRET as configured.
InitWith(bot_username, secret) ==
    /\ now = 0
    /\ pendingFile = NoFile
    /\ statusFile = NoFile
    /\ subsFile = NoFile
    /\ _BOT_USERNAME_CACHE = bot_username
    /\ WEBHOOK_SECRET = secret
    /\ tokensIssued = 0
    /\ issued = EmptyDict
    /\ consumed = EmptyDict
    /\ reported = EmptyDict
    /\ last = Idle
    /\ inflight = <<>>

\* the response is sent and the request is over
Respond ==
    /\ last # Idle
    /\ last' = Idle
    /\ UNCHANGED <<now, files, config, tokensIssued, history, inflight>>

\* time passes between requests
Tick(maxTime) ==
    /\ last = Idle
    /\ now < maxTime
    /\ now' = now + 1
    /\ UNCHANGED <<files, config, tokensIssued, history, last, inflight>>

CreateLink(maxTokens, rawTopics, getMeOutcomes) ==
    /\ last = Idle
    /\ \E rawTopic \in rawTopics, getMe \in getMeOutcomes :
         \E r \in {create_subscription_link(pendingFile, statusFile,
                       _BOT_USERNAME_CACHE, now, TokenStr(tokensIssued + 1),
                       rawTopic, getMe)} :
            /\ r.code = 200 => tokensIssued < maxTokens
            /\ pendingFile' = r.pendingFile
            /\ statusFile' = r.statusFile
            /\ _BOT_USERNAME_CACHE' = r.cache
            /\ tokensIssued' = IF r.code = 200 THEN tokensIssued + 1 ELSE tokensIssued
            /\ issued' = IF r.code = 200
                         THEN Put(issued, r.token,
                                  [topic |-> r.topic, at |-> now,
                                   start_param |-> r.start_param])
                         ELSE issued
            /\ last' = [op |-> "create_link", rawTopic |-> rawTopic] @@ Response(r)
    /\ UNCHANGED <<now, subsFile, WEBHOOK_SECRET, consumed, reported, inflight>>

Status(startParams) ==
    /\ last = Idle
    /\ \E start_param \in startParams :
         \E r \in {get_subscription_link_status(statusFile, now, start_param)} :
            /\ statusFile' = r.statusFile
            /\ reported' = IF r.code = 200 /\ r.payload.status \in {"confirmed", "expired"}
                           THEN Put(reported, r.token,
                                    Get(reported, r.token, {}) \cup {r.payload.status})
                           ELSE reported
            /\ last' = [op |-> "status", start_param |-> start_param] @@ Response(r)
    /\ UNCHANGED <<now, pendingFile, subsFile, config, tokensIssued, issued, consumed, inflight>>

Webhook(updates, headers) ==
    /\ last = Idle
    /\ \E update \in updates, header \in headers, gw \in BOOLEAN :
         \E r \in {telegram_webhook(pendingFile, statusFile, subsFile,
                                    WEBHOOK_SECRET, now, header, update, gw)} :
            /\ pendingFile' = r.pendingFile
            /\ statusFile' = r.statusFile
            /\ subsFile' = r.subsFile
            /\ consumed' = IF r.outcome = "confirmed"
                           THEN Put(consumed, r.token,
                                    [chat_id |-> r.chat_id, topic |-> r.topic,
                                     at |-> now])
                           ELSE consumed
            /\ last' = [op |-> "webhook", update |-> update, header |-> header]
                           @@ Response(r)
    /\ UNCHANGED <<now, config, tokensIssued, issued, reported, inflight>>

ChatIds(rawTopics) ==
    /\ last = Idle
    /\ \E rawTopic \in rawTopics :
         last' = [op |-> "chat_ids", rawTopic |-> rawTopic]
                     @@ get_chat_ids_for_topic(subsFile, rawTopic)
    /\ UNCHANGED <<now, files, config, tokensIssued, history, inflight>>

Notify(rawTopics, bodies, chats) ==
    /\ last = Idle
    /\ \E rawTopic \in rawTopics, body \in bodies :
         \E gateway \in [chats \X {"sendMessage", "sendAudio"} -> BOOLEAN] :
            last' = [op |-> "notify", rawTopic |-> rawTopic, body |-> body]
                        @@ notify_topic_subscribers(subsFile, rawTopic, body, gateway)
    /\ UNCHANGED <<now, files, config, tokensIssued, history, inflight>>

\* ------------------------------------------------------------------- inputs
TopicAi == <<"a","i">>
TopicMl == <<"m","l">>
RawTopics == {TopicAi, <<" ","M","L">>, <<"X">>}

Chats == {1, 2}

\* who writes from a chat: a user with a username, or a sender without one
FromUser(c) == IF c = 1 THEN [username |-> <<"u","1">>, first_name |-> <<"U">>]
               ELSE EmptyDict

TextUpdates(texts) ==
    {[message |-> [text |-> text, chat |-> [id |-> c], from |-> FromUser(c)]] :
        text \in texts, c \in Chats}

StartTexts(n) == {CmdStart \o <<" ">> \o START_PREFIX \o TokenStr(i) : i \in 1..n}

\* a token no create_link request has returned
UnknownToken == <<"z","z">>

CommandTexts ==
    {CmdStart, CmdTopics, CmdUnsubscribe, CmdUnsubscribeAll, <<"h","i">>,
     CmdUnsubscribe \o <<" ">> \o WordAll,
     CmdUnsubscribe \o <<" ","A","L","L">>,
     CmdUnsubscribe \o <<" ">> \o TopicAi,
     CmdUnsubscribe \o <<" ","M","L">>,
     CmdUnsubscribe \o <<" ","b","o","g","u","s","!">>,
     CmdStart \o <<" ">> \o TokenStr(1)}

OtherUpdates ==
    {[message |-> [text |-> CmdStart, chat |-> EmptyDict]],
     [edited_message |-> [text |-> CmdTopics, chat |-> [id |-> 1]]],
     [update_id |-> 1]}

StartParams(n) == {START_PREFIX \o TokenStr(i) : i \in 1..n}

\* start parameters without the prefix or without a token
BadStartParams == {TokenStr(1), START_PREFIX \o <<" ">>}

\* getMe: the call fails, or answers with or without a username
GetMeOutcomes == {[ok |-> FALSE],
                  [ok |-> TRUE, result |-> EmptyDict],
                  [ok |-> TRUE, result |-> [username |-> <<"@","B","o","t">>]]}

Bodies == {[disable_web_page_preview |-> TRUE],
           [disable_web_page_preview |-> TRUE, text |-> <<>>, caption |-> <<"c">>],
           [disable_web_page_preview |-> TRUE, text |-> <<"h","i">>],
           [disable_web_page_preview |-> TRUE, audio_url |-> <<"u","r","l">>],
           [disable_web_page_preview |-> TRUE, text |-> <<"h","i">>,
            audio_url |-> <<"u","r","l">>, caption |-> <<"c">>]}

\* ----------------------------------------------------------- specifications
\* Link lifecycle: links are created, polled, confirmed from a chat and left
\* to expire while the clock advances.  The bot handle is configured and no
\* webhook secret is set.
InitLink == InitWith(BotName, <<>>)

\* the requests of the link lifecycle
LinkTopics == {TopicAi, <<" ","M","L">>}
GetMeFails == {[ok |-> FALSE]}
LinkStartParams == StartParams(MaxLinks)
LinkStartUpdates == TextUpdates(StartTexts(MaxLinks))
LinkCommandUpdates ==
    TextUpdates({CmdUnsubscribeAll, CmdStart,
                 CmdUnsubscribe \o <<" ">> \o TopicAi,
                 CmdUnsubscribe \o <<" ">> \o WordAll,
                 CmdStart \o <<" ">> \o START_PREFIX \o UnknownToken})
NoHeader == {None}
LinkChatTopics == {TopicAi, TopicMl}

NextLink ==
    \/ Tick(MaxTime)
    \/ CreateLink(MaxLinks, LinkTopics, GetMeFails)
    \/ Status(LinkStartParams)
    \/ Status(BadStartParams)
    \/ Webhook(LinkStartUpdates, NoHeader)
    \/ Webhook(LinkCommandUpdates, NoHeader)
    \/ ChatIds(LinkChatTopics)
    \/ Respond

SpecLink == InitLink /\ [][NextLink]_vars

\* Subscriptions: every webhook command and the broadcast, on links created
\* for several chats.  The bot handle is resolved through getMe and a webhook
\* secret is configured.
Init == InitWith(None, SecretValue)

\* the webhook requests on subscriptions, and the secret headers they carry
StartUpdates == TextUpdates(StartTexts(MaxTokens))
StartHeaders == {None, SecretValue, WrongSecret}
CommandUpdates == TextUpdates(CommandTexts)
CommandHeaders == {None, SecretValue}

Next ==
    \/ Tick(MaxSubsTime)
    \/ CreateLink(MaxTokens, RawTopics, GetMeOutcomes)
    \/ Webhook(StartUpdates, StartHeaders)
    \/ Webhook(CommandUpdates, CommandHeaders)
    \/ Webhook(OtherUpdates, CommandHeaders)
    \/ ChatIds(RawTopics)
    \/ Notify(RawTopics, Bodies, Chats)
    \/ Respond

Spec == Init /\ [][Next]_vars

\* Bot handle: links are created while TELEGRAM_BOT_USERNAME is either unset
\* or set, and getMe fails, answers without a username or answers with one.
\* BOT_USERNAME = env.strip().lstrip("@").lower()
BOT_USERNAME(env) == Lower(LStripAt(Strip(env)))

\* the values of TELEGRAM_BOT_USERNAME: unset, or a handle written "@MyBot"
HandleEnvs == {<<>>, <<" ","@","M","y","B","o","t">>}

\* _BOT_USERNAME_CACHE = BOT_USERNAME or None
InitHandle ==
    \E env \in HandleEnvs :
        InitWith(IF BOT_USERNAME(env) = <<>> THEN None ELSE BOT_USERNAME(env), <<>>)

HandleStartParams == StartParams(MaxHandleLinks)

NextHandle ==
    \/ Tick(MaxTime)
    \/ CreateLink(MaxHandleLinks, RawTopics, GetMeOutcomes)
    \/ Status(HandleStartParams)
    \/ Respond

SpecHandle == InitHandle /\ [][NextHandle]_vars

\* Topics: the chat-ids endpoint is asked for every short string over
\* TopicChars and for strings around the longest topic the pattern admits.
TopicChars == {"a", "Z", "0", "-", " ", "!"}

\* the strings of exactly n characters of TopicChars
RECURSIVE TopicStrings(_)
TopicStrings(n) ==
    IF n = 0 THEN {<<>>}
    ELSE {<<c>> \o s : c \in TopicChars, s \in TopicStrings(n - 1)}

\* the strings of at most n characters of TopicChars
ShortTopics(n) == {SubSeq(s, 1, k) : s \in TopicStrings(n), k \in 0..n}

\* n times the character c
RECURSIVE Repeat(_, _)
Repeat(c, n) == IF n = 0 THEN <<>> ELSE <<c>> \o Repeat(c, n - 1)

\* strings of lo to hi characters: letters only, a hyphen at the end, a hyphen
\* at the start
LongTopics(lo, hi) ==
    {Repeat(first, 1) \o Repeat("a", n - 2) \o Repeat(final, 1) :
        n \in lo..hi, first \in {"a", "-"}, final \in {"a", "-"}}

InitTopic == InitWith(None, <<>>)

ShortTopicInputs == ShortTopics(MaxTopicLen)
LongTopicInputs == LongTopics(MinLongLen, MaxLongLen)

NextTopic ==
    \/ ChatIds(ShortTopicInputs)
    \/ ChatIds(LongTopicInputs)
    \/ Respond

SpecTopic == InitTopic /\ [][NextTopic]_vars

\* ------------------------------------------------------------------ claims
\* the text "/start <start_param>" a chat sends to confirm a link
StartText(start_param) == CmdStart \o <<" ">> \o start_param

\* the step answers a webhook event "/start subscribe_<token>" from a chat
StartStep(token) ==
    /\ last = Idle
    /\ last'.op = "webhook"
    /\ last'.code # 401
    /\ "message" \in DOMAIN last'.update
    /\ "id" \in DOMAIN last'.update.message.chat
    /\ last'.update.message.text = StartText(START_PREFIX \o token)

\* the reply a webhook request sent, or tried to send
InvalidLinkText ==
    <<"This subscribe link is invalid or expired. Please generate a new one from the website.">>

\* C1: a token is consumed at most once.  The first "/start subscribe_<token>"
\* delivered before the token expires confirms the subscription; every later
\* one finds no PendingLink, is answered "invalid or expired" and leaves the
\* subscriptions and the record of the first confirmation untouched.
C1_ConsumedAtMostOnce ==
    [][\A token \in DOMAIN issued :
        StartStep(token) =>
            IF token \in DOMAIN consumed
            THEN /\ last'.outcome = "invalid_link"
                 /\ last'.calls[1].text = InvalidLinkText
                 /\ subsFile' = subsFile
                 /\ statusFile' = statusFile
                 /\ consumed' = consumed
            ELSE now < issued[token].at + LINK_TTL_SECONDS =>
                     /\ last'.outcome = "confirmed"
                     /\ token \in DOMAIN consumed']_vars

\* C1 witness: a second "/start" with a consumed token was answered invalid
C1_Witness ==
    /\ last.op = "webhook"
    /\ last.outcome = "invalid_link"
    /\ \E token \in DOMAIN consumed :
          last.update.message.text = StartText(START_PREFIX \o token)

\* C2: in every persisted subscriptions document the two indices agree:
\* topic t is in chats[c].topics exactly when c is in topics[t].
C2_DualIndex ==
    subsFile.exists =>
        LET chats == subsFile.doc.chats
            topics == subsFile.doc.topics
        IN  /\ \A c \in DOMAIN chats : \A t \in chats[c].topics :
                   t \in DOMAIN topics /\ c \in topics[t]
            /\ \A t \in DOMAIN topics : \A c \in topics[t] :
                   c \in DOMAIN chats /\ t \in chats[c].topics

\* C2 witness: after confirmations and an unsubscribe, one chat is left
\* without topics while another is still subscribed
C2_Witness ==
    /\ subsFile.exists
    /\ \E c \in DOMAIN subsFile.doc.chats : subsFile.doc.chats[c].topics = {}
    /\ \E c \in DOMAIN subsFile.doc.chats : subsFile.doc.chats[c].topics # {}
    /\ last.op = "webhook"
    /\ last.outcome \in {"unsubscribed", "unsubscribed_all"}

\* C3: a "/start subscribe_<token>" processed at or after the token's
\* expires_at never subscribes the chat and never marks the token confirmed.
C3_ExpiredNeverConsumed ==
    [][\A token \in DOMAIN issued :
        (StartStep(token) /\ now >= issued[token].at + LINK_TTL_SECONDS) =>
            /\ last'.outcome = "invalid_link"
            /\ subsFile' = subsFile
            /\ statusFile' = statusFile
            /\ consumed' = consumed]_vars

\* C3 witness: an expired, never consumed token was presented and refused
\* while its LinkStatus record was still stored as pending
C3_Witness ==
    /\ last.op = "webhook"
    /\ last.outcome = "invalid_link"
    /\ \E token \in (DOMAIN issued) \ (DOMAIN consumed) :
          /\ last.update.message.text = StartText(START_PREFIX \o token)
          /\ now >= issued[token].at + LINK_TTL_SECONDS
          /\ statusFile.doc[token].status = "pending"

\* the step answers a status request for the token
StatusStep(token) ==
    /\ last = Idle
    /\ last'.op = "status"
    /\ last'.code = 200
    /\ last'.token = token

\* C4: once a status request has reported confirmed for a token, no later one
\* reports pending or expired; once one has reported expired, no later one
\* reports pending or confirmed.
C4_StatusTransitions ==
    [][\A token \in DOMAIN reported :
        StatusStep(token) =>
            /\ "confirmed" \in reported[token] =>
                   last'.payload.status \notin {"pending", "expired"}
            /\ "expired" \in reported[token] =>
                   last'.payload.status \notin {"pending", "confirmed"}]_vars

\* C4 witness: a token was reported pending... then confirmed, and a later
\* request, after the record was dropped, reports invalid
C4_Witness ==
    /\ last.op = "status"
    /\ last.code = 200
    /\ last.payload.status = "invalid"
    /\ last.token \in DOMAIN reported
    /\ "confirmed" \in reported[last.token]

\* the step answers a webhook event with the given text from chat c
TextStep(c, texts) ==
    /\ last = Idle
    /\ last'.op = "webhook"
    /\ last'.code # 401
    /\ "message" \in DOMAIN last'.update
    /\ "id" \in DOMAIN last'.update.message.chat
    /\ last'.update.message.chat.id = c
    /\ last'.update.message.text \in texts

\* C5: every webhook event that passes the secret check is answered 200, also
\* when the gateway fails while the reply is sent.
C5_WebhookAlways200 ==
    (last.op = "webhook" /\ last.code # 401) => last.code = 200

\* C6: "/unsubscribe all" and "/unsubscribe_all" from a chat with topics leave
\* the chat without topics and under no topic of the index.
C6_UnsubscribeAllClears ==
    [][\A c \in Chats :
        (/\ TextStep(c, {CmdUnsubscribe \o <<" ">> \o WordAll, CmdUnsubscribeAll})
         /\ _chat_topics(_read_json(subsFile, EmptySubs), c) # {})
        => /\ _chat_topics(_read_json(subsFile', EmptySubs), c) = {}
           /\ \A t \in DOMAIN subsFile'.doc.topics :
                  Str(c) \notin subsFile'.doc.topics[t]]_vars

\* a status request has just reported expired for a token
ReportedExpired ==
    /\ last.op = "status"
    /\ last.code = 200
    /\ last.payload.status = "expired"

\* C7 as stated: after a status request has reported expired for a token, the
\* stored LinkStatus record of that token has status expired.
C7_ExpiryStored ==
    ReportedExpired => statusFile.doc[last.token].status = "expired"

\* C7 amended: the status request persists the pruned document only; the
\* expiry is computed for the read, and the stored record of a token reported
\* expired still has status pending with expires_at <= now.
C7_ExpiryComputedPerRead ==
    ReportedExpired =>
        /\ statusFile.exists
        /\ last.token \in DOMAIN statusFile.doc
        /\ statusFile.doc[last.token].status = "pending"
        /\ statusFile.doc[last.token].expires_at <= now

\* C7 witness: a status request reported expired
C7_Witness == ReportedExpired /\ last.token \in DOMAIN issued

\* C8: once "/start P" from chat C is processed before the token of P expires,
\* the status request for P reports confirmed with the link's topic T and the
\* chat-ids query for T includes C; status requests made while the record is
\* retained report the same, and so does a chat-ids request while C keeps T.
C8_EndToEnd ==
    [][\A token \in DOMAIN issued :
        LET P == issued[token].start_param
            T == issued[token].topic
        IN  /\ (/\ StartStep(token)
                /\ token \notin DOMAIN consumed
                /\ now < issued[token].at + LINK_TTL_SECONDS)
               => LET C == last'.update.message.chat.id
                      status == get_subscription_link_status(statusFile', now', P)
                      query == get_chat_ids_for_topic(subsFile', T)
                  IN  /\ status.payload.status = "confirmed"
                      /\ status.payload.topic = T
                      /\ C \in Range(query.chat_ids)
            /\ (/\ StatusStep(token)
                /\ token \in DOMAIN consumed
                /\ now < consumed[token].at + LINK_STATUS_RETENTION_SECONDS)
               => /\ last'.start_param = P
                  /\ last'.payload.status = "confirmed"
                  /\ last'.payload.topic = T
            /\ (/\ last = Idle
                /\ last'.op = "chat_ids"
                /\ last'.code = 200
                /\ last'.topic = T
                /\ token \in DOMAIN consumed
                /\ T \in _chat_topics(_read_json(subsFile, EmptySubs),
                                      consumed[token].chat_id))
               => consumed[token].chat_id \in Range(last'.chat_ids)]_vars

\* C8 witness: the chat-ids query lists the chat that confirmed a link whose
\* status is stored as confirmed
C8_Witness ==
    /\ last.op = "chat_ids"
    /\ last.code = 200
    /\ \E token \in DOMAIN consumed :
          /\ consumed[token].topic = last.topic
          /\ consumed[token].chat_id \in Range(last.chat_ids)
          /\ statusFile.doc[token].status = "confirmed"

\* the chats subscribed to a topic in the stored document
Subscribers(topic) ==
    {ParseInt(key) : key \in Get(_read_json(subsFile, EmptySubs).topics, topic, {})}

\* the gateway methods a notify body asks for
Requested(body) ==
    (IF Truthy(body, "text") THEN {"sendMessage"} ELSE {})
        \cup (IF Truthy(body, "audio_url") THEN {"sendAudio"} ELSE {})

\* every requested part went through for the chat
AllPartsSent(calls, body, c) ==
    \A method \in Requested(body) :
        \E i \in DOMAIN calls :
            calls[i].chat_id = c /\ calls[i].method = method /\ calls[i].ok

\* C9: notify attempts every subscriber whatever happens to the others,
\* delivered counts the chats whose requested parts all succeeded, the others
\* are listed in failed, delivered + |failed| = subscriber_count, and a
\* delivery failure never fails the request.
C9_NotifyIndependent ==
    last.op = "notify" =>
        /\ last.code \in {200, 400}
        /\ last.code = 400 =>
               \/ ~_sanitize_topic(last.rawTopic).ok
               \/ Requested(last.body) = {}
        /\ last.code = 200 =>
               LET subscribers == Subscribers(last.topic)
                   ok == {c \in subscribers : AllPartsSent(last.calls, last.body, c)}
               IN  /\ last.subscriber_count = Cardinality(subscribers)
                   /\ \A c \in subscribers :
                          \E i \in DOMAIN last.calls : last.calls[i].chat_id = c
                   /\ last.delivered = Cardinality(ok)
                   /\ {last.failed[i].chat_id : i \in DOMAIN last.failed}
                          = subscribers \ ok
                   /\ last.delivered + Len(last.failed) = last.subscriber_count

\* C9 witness: the delivery to one subscriber failed and a later subscriber
\* still got the message
C9_Witness ==
    /\ last.op = "notify"
    /\ last.code = 200
    /\ last.delivered = 1
    /\ Len(last.failed) = 1
    /\ ~last.calls[1].ok
    /\ last.calls[Len(last.calls)].ok

\* C10: notify calls the gateway only for subscribers of the topic and only
\* for the requested parts, at most once per part and chat; with no subscriber
\* it answers 0, 0, [] without calling the gateway.
C10_NotifyAtMostOnce ==
    last.op = "notify" =>
        /\ last.code = 400 => last.calls = <<>>
        /\ last.code = 200 =>
               /\ \A i \in DOMAIN last.calls :
                      /\ last.calls[i].chat_id \in Subscribers(last.topic)
                      /\ last.calls[i].method \in Requested(last.body)
               /\ \A i, j \in DOMAIN last.calls :
                      (/\ last.calls[i].chat_id = last.calls[j].chat_id
                       /\ last.calls[i].method = last.calls[j].method) => i = j
               /\ Subscribers(last.topic) = {} =>
                      /\ last.subscriber_count = 0
                      /\ last.delivered = 0
                      /\ last.failed = <<>>
                      /\ last.calls = <<>>

\* C10 witness: notify for a topic without subscribers, while another topic
\* has some, made no gateway call
C10_Witness ==
    /\ last.op = "notify"
    /\ last.code = 200
    /\ last.subscriber_count = 0
    /\ last.calls = <<>>
    /\ \E t \in DOMAIN _read_json(subsFile, EmptySubs).topics : TRUE

\* the step answers create_link for the topic, with getMe behaving as given
CreateLinkStep(rawTopic, getMe) ==
    /\ last = Idle
    /\ last' = [op |-> "create_link", rawTopic |-> rawTopic]
                  @@ Response(create_subscription_link(pendingFile, statusFile,
                         _BOT_USERNAME_CACHE, now, TokenStr(tokensIssued + 1),
                         rawTopic, getMe))

\* getMe fails or answers without a username
Unresolvable(getMe) ==
    ~getMe.ok \/ Strip(GetStr(getMe.result, "username")) = <<>>

\* C11: with no handle configured or cached and getMe unable to give one,
\* create_link for a valid topic answers 503 and inserts neither a
\* PendingLink nor a LinkStatus entry: the documents stay as they were.
C11_UnresolvedHandleFails ==
    [][\A rawTopic \in RawTopics, getMe \in GetMeOutcomes :
        (/\ CreateLinkStep(rawTopic, getMe)
         /\ Unresolvable(getMe)
         /\ _BOT_USERNAME_CACHE = None
         /\ _sanitize_topic(rawTopic).ok)
        => /\ last'.code = 503
           /\ UNCHANGED <<pendingFile, statusFile, subsFile>>
           /\ TokenStr(tokensIssued + 1) \notin DOMAIN _read_json(pendingFile', EmptyDict)
           /\ TokenStr(tokensIssued + 1) \notin DOMAIN _read_json(statusFile', EmptyDict)
           /\ UNCHANGED <<tokensIssued, issued>>]_vars

\* C11 witness: create_link was refused with 503 after a getMe call
C11_Witness ==
    /\ last.op = "create_link"
    /\ last.code = 503
    /\ Len(last.calls) = 1
    /\ _BOT_USERNAME_CACHE = None

\* C12: a configured or cached handle is used without a getMe call and stays;
\* without one, create_link calls getMe once, keeps the handle it resolves
\* and keeps nothing when the resolution fails, so the next create_link
\* resolves again.
C12_HandleCaching ==
    [][\A rawTopic \in RawTopics, getMe \in GetMeOutcomes :
        (CreateLinkStep(rawTopic, getMe) /\ _sanitize_topic(rawTopic).ok)
        => IF _BOT_USERNAME_CACHE # None
           THEN /\ last'.code = 200
                /\ last'.bot_username = _BOT_USERNAME_CACHE
                /\ last'.calls = <<>>
                /\ _BOT_USERNAME_CACHE' = _BOT_USERNAME_CACHE
           ELSE /\ Len(last'.calls) = 1
                /\ last'.calls[1].method = "getMe"
                /\ Unresolvable(getMe) =>
                       last'.code = 503 /\ _BOT_USERNAME_CACHE' = None
                /\ ~Unresolvable(getMe) =>
                       /\ last'.code = 200
                       /\ _BOT_USERNAME_CACHE' # None
                       /\ _BOT_USERNAME_CACHE' = last'.bot_username]_vars

\* C12 witness: a link is created with the handle getMe gave to an earlier
\* request, without a getMe call
C12_Witness ==
    /\ last.op = "create_link"
    /\ last.code = 200
    /\ last.calls = <<>>
    /\ last.bot_username = BotName
    /\ tokensIssued = 2

\* the tokens of the PendingLink set that have not expired
LivePending == _prune_pending(_read_json(pendingFile, EmptyDict), now)

\* a "/start subscribe_<token>" whose token is absent or expired is answered
\* invalid-or-expired and changes nothing but the expired pending links
FailedStartFrame(token) ==
    (StartStep(token) /\ token \notin DOMAIN LivePending)
    => /\ Len(last'.calls) = 1
       /\ last'.calls[1].method = "sendMessage"
       /\ last'.calls[1].chat_id = last'.update.message.chat.id
       /\ last'.calls[1].text = InvalidLinkText
       /\ UNCHANGED <<subsFile, statusFile, consumed>>
       /\ \A live \in DOMAIN LivePending :
              /\ live \in DOMAIN _read_json(pendingFile', EmptyDict)
              /\ pendingFile'.doc[live] = LivePending[live]

\* C13: a "/start subscribe_<token>" that finds its token absent or expired
\* replies invalid-or-expired, leaves the subscriptions and the link statuses
\* unchanged and removes no unexpired token from the pending links.
C13_FailedStartFrame ==
    [][/\ \A token \in DOMAIN issued : FailedStartFrame(token)
       /\ FailedStartFrame(UnknownToken)]_vars

\* C13 witness: an unknown token was refused while an unexpired link is
\* pending
C13_Witness ==
    /\ last.op = "webhook"
    /\ last.outcome = "invalid_link"
    /\ last.update.message.text = StartText(START_PREFIX \o UnknownToken)
    /\ \E live \in DOMAIN _read_json(pendingFile, EmptyDict) :
           pendingFile.doc[live].expires_at > now

\* the topics the "/unsubscribe <topic>" events name
UnsubscribeArgs == {TopicAi, <<"M","L">>, <<"b","o","g","u","s","!">>}

\* the one reply of the step went to chat c with the given text
RepliedWith(c, text) ==
    /\ Len(last'.calls) = 1
    /\ last'.calls[1].method = "sendMessage"
    /\ last'.calls[1].chat_id = c
    /\ last'.calls[1].text = text

\* C14: "/unsubscribe <topic>" with a malformed topic replies with the format
\* error, with a topic the chat does not have it replies not-subscribed, and
\* in both cases no document changes.
C14_UnsubscribeFrame ==
    [][\A c \in Chats, arg \in UnsubscribeArgs :
        TextStep(c, {CmdUnsubscribe \o <<" ">> \o arg})
        => LET clean == _sanitize_topic(arg)
               mine == _chat_topics(_read_json(subsFile, EmptySubs), c)
           IN  /\ ~clean.ok =>
                      /\ RepliedWith(c, <<"Topic format is invalid. Use lowercase letters, numbers, and hyphens.">>)
                      /\ UNCHANGED files
               /\ (clean.ok /\ clean.topic \notin mine) =>
                      /\ RepliedWith(c, <<"You are not subscribed to: ", clean.topic>>)
                      /\ UNCHANGED files]_vars

\* C14 witness: "/unsubscribe bogus!" from a chat that has a topic was
\* answered with the format error
C14_Witness ==
    /\ last.op = "webhook"
    /\ last.outcome = "invalid_topic"
    /\ _chat_topics(_read_json(subsFile, EmptySubs), last.update.message.chat.id) # {}

\* s starts with a lowercase letter or digit and goes on with lowercase
\* letters, digits and hyphens, shortest to 50 characters in all
WellFormedTopic(s, shortest) ==
    /\ Len(s) >= shortest
    /\ Len(s) <= 50
    /\ IsLowerOrDigit(s[1])
    /\ \A i \in 2..Len(s) : IsLowerOrDigit(s[i]) \/ s[i] = "-"

\* the chat-ids request accepts its topic exactly when the trimmed and
\* lowercased topic is well formed, answers with that topic, and refuses every
\* other topic with 400
AcceptsExactly(shortest) ==
    last.op = "chat_ids" =>
        LET clean == Lower(Strip(last.rawTopic))
        IN  /\ last.code \in {200, 400}
            /\ last.code = 200 <=> WellFormedTopic(clean, shortest)
            /\ last.code = 200 => last.topic = clean

\* C15 as stated: the validator accepts exactly the trimmed, lowercased
\* identifiers of 3 to 50 characters (a lowercase letter or digit followed by
\* 2 to 49 lowercase letters, digits or hyphens) and refuses all others.
C15_AcceptsThreeToFifty == AcceptsExactly(3)

\* C15 amended: the validator accepts exactly the trimmed, lowercased
\* identifiers of 2 to 50 characters (a lowercase letter or digit followed by
\* 1 to 49 lowercase letters, digits or hyphens) and refuses all others.
C15_AcceptsTwoToFifty == AcceptsExactly(2)

\* C15 witness: a topic of two characters was accepted
C15_Witness ==
    /\ last.op = "chat_ids"
    /\ last.code = 200
    /\ Len(last.topic) = 2

\* C16: with a secret configured, a webhook request whose secret header is
\* missing or different is answered 401, changes no document and sends no
\* message, whatever its text.
C16_SecretMismatchNoEffect ==
    [][(/\ last = Idle
        /\ last'.op = "webhook"
        /\ WEBHOOK_SECRET # <<>>
        /\ last'.header # WEBHOOK_SECRET)
       => /\ last'.code = 401
          /\ last'.calls = <<>>
          /\ UNCHANGED <<files, consumed>>]_vars

\* C16 witness: a "/start" carrying an unexpired pending token was refused
\* because of a wrong secret
C16_Witness ==
    /\ last.op = "webhook"
    /\ last.code = 401
    /\ last.header = WrongSecret
    /\ \E token \in DOMAIN LivePending :
           last.update.message.text = StartText(START_PREFIX \o token)

\* C17: notify with neither text nor audio_url is refused with 400 without
\* looking up the subscribers: no gateway call is made and no delivery is
\* reported, whatever the topic and its subscribers.
C17_EmptyBodyRefused ==
    (/\ last.op = "notify"
     /\ ~Truthy(last.body, "text")
     /\ ~Truthy(last.body, "audio_url"))
    => /\ last.code = 400
       /\ last.calls = <<>>
       /\ DOMAIN last = {"op", "rawTopic", "body", "code", "calls"}

\* C17 witness: a notify without text and audio_url for a topic that has
\* subscribers was refused
C17_Witness ==
    /\ last.op = "notify"
    /\ last.code = 400
    /\ ~Truthy(last.body, "audio_url")
    /\ "text" \in DOMAIN last.body
    /\ _sanitize_topic(last.rawTopic).ok
    /\ Subscribers(_sanitize_topic(last.rawTopic).topic) # {}

\* ------------------------------------------- specification of the topic sets
\* _save_chat_topics on its own: the store is read, the chat's topic set is
\* replaced by an arbitrary set, and the snapshot is written back (the
\* read / _save_chat_topics / write sequence of the unsubscribe branches)
TopicGo == <<"g","o">>
StoreTopics == {TopicAi, TopicMl, TopicGo}
TopicSets == {{}, {TopicAi}, {TopicGo}, {TopicAi, TopicMl}, {TopicMl, TopicGo},
              {TopicAi, TopicMl, TopicGo}}

SetChatTopics(chats, topicSets) ==
    /\ last = Idle
    /\ \E chat_id \in chats, topics_for_chat \in topicSets :
         LET subs == _read_json(subsFile, EmptySubs)
         IN  /\ subsFile' = _write_json_atomic(
                                _save_chat_topics(subs, chat_id, topics_for_chat, now))
             /\ last' = [op |-> "set_chat_topics", chat_id |-> chat_id,
                         topics |-> topics_for_chat,
                         previous |-> _chat_topics(subs, chat_id)]
    /\ UNCHANGED <<now, pendingFile, statusFile, config, tokensIssued, history, inflight>>

InitStore == InitWith(None, <<>>)

NextStore ==
    \/ Tick(MaxSubsTime)
    \/ SetChatTopics(Chats, TopicSets)
    \/ ChatIds(StoreTopics)
    \/ Respond

SpecStore == InitStore /\ [][NextStore]_vars

\* the chats the topic index of a store lists under a topic
IndexedChats(file, topic) ==
    Get(Get(_read_json(file, EmptySubs), "topics", EmptyDict), topic, {})

\* C18: after set_chat_topics(chat, S) the chat's topic set is S, the topic
\* index lists the chat under a topic exactly when the topic is in S, no topic
\* entry has an empty chat set, and every other chat is listed under exactly
\* the topics it was listed under before.
C18_SetChatTopics ==
    [][last'.op = "set_chat_topics" =>
          LET chat_id == last'.chat_id
              S == last'.topics
              after == _read_json(subsFile', EmptySubs)
          IN  /\ _chat_topics(after, chat_id) = S
              /\ \A t \in StoreTopics :
                     Str(chat_id) \in IndexedChats(subsFile', t) <=> t \in S
              /\ DOMAIN after.topics \subseteq StoreTopics
              /\ \A t \in DOMAIN after.topics : after.topics[t] # {}
              /\ \A other \in Chats \ {chat_id} : \A t \in StoreTopics :
                     Str(other) \in IndexedChats(subsFile', t)
                         <=> Str(other) \in IndexedChats(subsFile, t)]_vars

\* C18 witness: chat 1 went from {ai, ml} to {ml, go} while chat 2 stays under
\* ai: ai no longer lists chat 1, ml and go do
C18_Witness ==
    /\ last.op = "set_chat_topics"
    /\ last.chat_id = 1
    /\ last.previous = {TopicAi, TopicMl}
    /\ last.topics = {TopicMl, TopicGo}
    /\ IndexedChats(subsFile, TopicAi) = {Str(2)}
    /\ Str(1) \in IndexedChats(subsFile, TopicMl)
    /\ Str(1) \in IndexedChats(subsFile, TopicGo)

\* the webhook branches that change the subscriptions document
MutatingOutcomes == {"confirmed", "unsubscribed", "unsubscribed_all"}

\* how often, and where, a step occurs in a branch's order of steps
Count(io, step) == Cardinality({i \in DOMAIN io : io[i] = step})
Position(io, step) == CHOOSE i \in DOMAIN io : io[i] = step

\* C19: a webhook branch that changes the subscriptions document reads it
\* once, writes it once, and sends its reply after that write (and, when
\* confirming, after the link-status write); so whether the reply succeeds or
\* fails, the three documents end as a delivered reply would leave them.  A
\* branch that does not write the subscriptions document leaves it as it was.
C19_ReplyAfterWrite ==
    [][last'.op = "webhook" =>
          LET io == last'.io
              delivered == telegram_webhook(pendingFile, statusFile, subsFile,
                               WEBHOOK_SECRET, now, last'.header, last'.update, TRUE)
          IN  /\ last'.outcome \in MutatingOutcomes =>
                     /\ Count(io, "read_subs") = 1
                     /\ Count(io, "write_subs") = 1
                     /\ Count(io, "send") = 1
                     /\ Position(io, "read_subs") < Position(io, "write_subs")
                     /\ Position(io, "write_subs") < Position(io, "send")
                     /\ last'.outcome = "confirmed" =>
                            /\ Count(io, "write_status") = 1
                            /\ Position(io, "write_status") < Position(io, "send")
                     /\ Len(last'.calls) = 1
                     /\ subsFile'.exists
                     /\ pendingFile' = delivered.pendingFile
                     /\ statusFile' = delivered.statusFile
                     /\ subsFile' = delivered.subsFile
              /\ Count(io, "write_subs") = 0 => subsFile' = subsFile]_vars

\* C19 witness: a confirmation whose reply failed: the request is answered
\* 500, and the token is consumed, the chat subscribed and the link confirmed
C19_Witness ==
    /\ last.op = "webhook"
    /\ last.outcome = "confirmed"
    /\ last.code = 500
    /\ ~last.calls[1].ok
    /\ last.token \notin DOMAIN _read_json(pendingFile, EmptyDict)
    /\ Str(last.chat_id) \in IndexedChats(subsFile, last.topic)
    /\ last.topic \in _chat_topics(_read_json(subsFile, EmptySubs), last.chat_id)
    /\ _read_json(statusFile, EmptyDict)[last.token].status = "confirmed"

ChatStep ==
    /\ last = Idle
    /\ last'.op = "webhook"
    /\ last'.code # 401
    /\ "message" \in DOMAIN last'.update
    /\ "id" \in DOMAIN last'.update.message.chat

\* the texts the command table lists: "/start subscribe_<token>", "/start",
\* "/topics", "/unsubscribe all", "/unsubscribe_all", "/unsubscribe <topic>"
RecognizedCommand(text) ==
    \/ text \in {CmdStart, CmdTopics, CmdUnsubscribeAll}
    \/ /\ StartsWith(text, CmdUnsubscribe \o <<" ">>)
       /\ Strip(DropPrefix(text, Len(CmdUnsubscribe) + 1)) # <<>>
    \/ /\ StartsWith(text, CmdStart \o <<" ">> \o START_PREFIX)
       /\ Strip(DropPrefix(text, Len(CmdStart) + 1 + Len(START_PREFIX))) # <<>>

\* the event got no reply and changed no document
SilentlyIgnored ==
    /\ last'.calls = <<>>
    /\ last'.code = 200
    /\ UNCHANGED files

ReadPending ==
    \/ last.op = "create_link" /\ last.code = 200
    \/ last.op = "webhook" /\ last.outcome \in {"invalid_link", "no_topic", "confirmed"}

\* the request being answered read (and rewrote) the LinkStatus document
ReadStatus ==
    \/ last.op = "create_link" /\ last.code = 200
    \/ last.op = "status" /\ last.code = 200
    \/ last.op = "webhook" /\ last.outcome = "confirmed"

\* C22: right after a request that read the PendingLink document, the
\* document holds no entry with expires_at <= now; right after a request that
\* read the LinkStatus document, it holds no pending entry with
\* expires_at + retention <= now and no confirmed entry with
\* confirmed_at + retention <= now.
C22_PruningBounds ==
    /\ ReadPending =>
           /\ pendingFile.exists
           /\ \A token \in DOMAIN pendingFile.doc :
                  pendingFile.doc[token].expires_at > now
    /\ ReadStatus =>
           /\ statusFile.exists
           /\ \A token \in DOMAIN statusFile.doc :
                  LET record == statusFile.doc[token]
                  IN  /\ record.status \in {"pending", "confirmed"}
                      /\ record.status = "pending" =>
                             record.expires_at + LINK_STATUS_RETENTION_SECONDS > now
                      /\ record.status = "confirmed" =>
                             record.confirmed_at + LINK_STATUS_RETENTION_SECONDS > now

\* C22 witness: a status request has just rewritten the LinkStatus document
\* without the record of an issued token, whose retention had ended, and the
\* PendingLink document does not hold the token either
C22_Witness ==
    /\ last.op = "status"
    /\ last.code = 200
    /\ \E token \in DOMAIN issued :
           /\ token \notin DOMAIN statusFile.doc
           /\ token \notin DOMAIN _read_json(pendingFile, EmptyDict)

\* ------------------------------------------------- concurrent requests
\* The handlers step by step: each read or write of a document is one step,
\* and the steps of the requests in flight interleave.  The synchronous
\* endpoints (create link, link status) run on pool threads; the webhook runs
\* on the event loop and awaits nothing after it has parsed the request, so in
\* one process a webhook never overlaps another webhook.
MaxInflight == 2
MaxRaceTokens == 2
MaxRaceTime == 1

Slots == 1..MaxInflight
FreeSlot == CHOOSE s \in Slots : s \notin DOMAIN inflight /\ \A f \in 1..(s - 1) : f \in DOMAIN inflight
HasFreeSlot == \E s \in Slots : s \notin DOMAIN inflight

\* faulty variant of write_back: the write is given up when the document is no
\* longer the one the request read
write_back_if_unchanged(current, base, payload) ==
    IF _read_json(current, base) = base THEN _write_json_atomic(payload) ELSE current

\* tmp_path.replace(path): the snapshot replaces the document, whatever the
\* document holds by now
write_back(current, base, payload) == _write_json_atomic(payload)

\* the request in slot s is at position pc of handler op
At(s, op, pc) ==
    /\ s \in DOMAIN inflight
    /\ inflight[s].op = op
    /\ inflight[s].pc = pc

\* the request in slot s moves on with new local values, or returns
Goto(s, pc, locals) == inflight' = Put(inflight, s, locals @@ [pc |-> pc] @@ inflight[s])
Return(s) == inflight' = Del(inflight, s)

\* create_subscription_link up to pending[token] = {...}
CreateLinkReadPending(topics) ==
    /\ HasFreeSlot
    /\ tokensIssued < MaxRaceTokens
    /\ \E topic \in topics :
         LET token == TokenStr(tokensIssued + 1)
             base == _read_json(pendingFile, EmptyDict)
         IN  inflight' = Put(inflight, FreeSlot,
                 [op |-> "create_link", pc |-> "write_pending", t |-> now,
                  token |-> token, topic |-> topic, base |-> base,
                  pending |-> Put(_prune_pending(base, now), token,
                                  [topic |-> topic, created_at |-> now,
                                   expires_at |-> now + LINK_TTL_SECONDS])])
    /\ tokensIssued' = tokensIssued + 1
    /\ UNCHANGED <<now, files, config, history, last>>

\* _write_json_atomic(PENDING_FILE, pending)
CreateLinkWritePending(s) ==
    /\ At(s, "create_link", "write_pending")
    /\ pendingFile' = write_back(pendingFile, inflight[s].base, inflight[s].pending)
    /\ Goto(s, "read_status", EmptyDict)
    /\ UNCHANGED <<now, statusFile, subsFile, config, tokensIssued, history, last>>

\* statuses = _read_json(...) up to statuses[token] = {...}
CreateLinkReadStatus(s) ==
    /\ At(s, "create_link", "read_status")
    /\ LET r == inflight[s]
           base == _read_json(statusFile, EmptyDict)
       IN  Goto(s, "write_status",
                [base |-> base,
                 statuses |-> Put(_prune_link_status(base, r.t), r.token,
                                  [topic |-> r.topic, created_at |-> r.t,
                                   expires_at |-> r.t + LINK_TTL_SECONDS,
                                   status |-> "pending"])])
    /\ UNCHANGED <<now, files, config, tokensIssued, history, last>>

\* _write_json_atomic(LINK_STATUS_FILE, statuses) and the response
CreateLinkWriteStatus(s) ==
    /\ At(s, "create_link", "write_status")
    /\ LET r == inflight[s]
       IN  /\ statusFile' = write_back(statusFile, r.base, r.statuses)
           /\ issued' = Put(issued, r.token,
                            [topic |-> r.topic, at |-> r.t,
                             start_param |-> START_PREFIX \o r.token])
    /\ Return(s)
    /\ UNCHANGED <<now, pendingFile, subsFile, config, tokensIssued, consumed,
                   reported, last>>

\* get_subscription_link_status up to statuses = _prune_link_status(...);
\* a client knows a token once create_subscription_link has returned it
StatusRead(tokens) ==
    /\ HasFreeSlot
    /\ \E token \in tokens \cap DOMAIN issued :
         LET base == _read_json(statusFile, EmptyDict)
         IN  inflight' = Put(inflight, FreeSlot,
                 [op |-> "status", pc |-> "write_status", t |-> now,
                  token |-> token, base |-> base,
                  statuses |-> _prune_link_status(base, now)])
    /\ UNCHANGED <<now, files, config, tokensIssued, history, last>>

\* _write_json_atomic(LINK_STATUS_FILE, statuses); the payload returned is
\* computed from the request's own statuses and changes no state
StatusWrite(s) ==
    /\ At(s, "status", "write_status")
    /\ statusFile' = write_back(statusFile, inflight[s].base, inflight[s].statuses)
    /\ Return(s)
    /\ UNCHANGED <<now, pendingFile, subsFile, config, tokensIssued, history, last>>

\* how many webhook requests are between their first read and their return
WebhooksInFlight == Cardinality({s \in DOMAIN inflight : inflight[s].op = "webhook"})

\* "/start subscribe_<token>" up to record = pending.pop(token, None), for a
\* token that create_subscription_link has returned
StartReadPending(tokens, chats, maxWebhooks) ==
    /\ HasFreeSlot
    /\ WebhooksInFlight < maxWebhooks
    /\ \E token \in tokens \cap DOMAIN issued, chat_id \in chats :
         LET base == _read_json(pendingFile, EmptyDict)
             popped == pending_pop(_prune_pending(base, now), token)
         IN  inflight' = Put(inflight, FreeSlot,
                 [op |-> "webhook", pc |-> "write_pending", t |-> now,
                  token |-> token, chat_id |-> chat_id, base |-> base,
                  record |-> popped.record, pending |-> popped.rest])
    /\ UNCHANGED <<now, files, config, tokensIssued, history, last>>

\* _write_json_atomic(PENDING_FILE, pending); without a record (or a topic)
\* the chat is told so and the request returns
StartWritePending(s) ==
    /\ At(s, "webhook", "write_pending")
    /\ LET r == inflight[s]
       IN  /\ pendingFile' = write_back(pendingFile, r.base, r.pending)
           /\ IF IsEmpty(r.record) \/ Lower(Strip(Get(r.record, "topic", <<>>))) = <<>>
              THEN Return(s)
              ELSE Goto(s, "read_subs", EmptyDict)
    /\ UNCHANGED <<now, statusFile, subsFile, config, tokensIssued, history, last>>

\* subs = _read_json(...) up to subs["topics"][topic] = sorted(topic_chat_ids)
StartReadSubs(s) ==
    /\ At(s, "webhook", "read_subs")
    /\ LET r == inflight[s]
           base == _read_json(subsFile, EmptySubs)
           topic == Lower(Strip(Get(r.record, "topic", <<>>)))
       IN  Goto(s, "write_subs",
                [base |-> base, topic |-> topic,
                 subs |-> confirm_subscription(base, r.chat_id, topic,
                                               FromUser(r.chat_id), r.t)])
    /\ UNCHANGED <<now, files, config, tokensIssued, history, last>>

\* _write_json_atomic(SUBSCRIPTIONS_FILE, subs)
StartWriteSubs(s) ==
    /\ At(s, "webhook", "write_subs")
    /\ subsFile' = write_back(subsFile, inflight[s].base, inflight[s].subs)
    /\ Goto(s, "read_status", EmptyDict)
    /\ UNCHANGED <<now, pendingFile, statusFile, config, tokensIssued, history, last>>

\* statuses = _read_json(...) up to statuses[token] = {... "confirmed" ...}
StartReadStatus(s) ==
    /\ At(s, "webhook", "read_status")
    /\ LET r == inflight[s]
           base == _read_json(statusFile, EmptyDict)
       IN  Goto(s, "write_status",
                [base |-> base,
                 statuses |-> Put(_prune_link_status(base, r.t), r.token,
                                  confirmed_status(r.record, r.topic, r.t))])
    /\ UNCHANGED <<now, files, config, tokensIssued, history, last>>

\* _write_json_atomic(LINK_STATUS_FILE, statuses), then the reply
StartWriteStatus(s) ==
    /\ At(s, "webhook", "write_status")
    /\ LET r == inflight[s]
       IN  /\ statusFile' = write_back(statusFile, r.base, r.statuses)
           /\ consumed' = Put(consumed, r.token,
                              [chat_id |-> r.chat_id, topic |-> r.topic, at |-> r.t])
    /\ Return(s)
    /\ UNCHANGED <<now, pendingFile, subsFile, config, tokensIssued, issued,
                   reported, last>>

\* time passes while requests are in flight
RaceTick ==
    /\ now < MaxRaceTime
    /\ now' = now + 1
    /\ UNCHANGED <<files, config, tokensIssued, history, last, inflight>>

RaceTopics == {TopicAi}
RaceTokens == {TokenStr(i) : i \in 1..MaxRaceTokens}

\* One process: telegram_webhook is a coroutine that awaits nothing after
\* request.json(), so the event loop runs one webhook at a time.
EventLoopWebhooks == 1

InitRace == InitWith(BotName, <<>>)

NextRace ==
    \/ RaceTick
    \/ CreateLinkReadPending(RaceTopics)
    \/ \E s \in Slots : CreateLinkWritePending(s)
    \/ \E s \in Slots : CreateLinkReadStatus(s)
    \/ \E s \in Slots : CreateLinkWriteStatus(s)
    \/ StatusRead(RaceTokens)
    \/ \E s \in Slots : StatusWrite(s)
    \/ StartReadPending(RaceTokens, Chats, EventLoopWebhooks)
    \/ \E s \in Slots : StartWritePending(s)
    \/ \E s \in Slots : StartReadSubs(s)
    \/ \E s \in Slots : StartWriteSubs(s)
    \/ \E s \in Slots : StartReadStatus(s)
    \/ \E s \in Slots : StartWriteStatus(s)

SpecRace == InitRace /\ [][NextRace]_vars

\* Several worker processes over one data directory: webhook deliveries
\* overlap like any other pair of requests.  Links are created and consumed
\* within one second.
NextRaceShared ==
    \/ CreateLinkReadPending(RaceTopics)
    \/ \E s \in Slots : CreateLinkWritePending(s)
    \/ \E s \in Slots : CreateLinkReadStatus(s)
    \/ \E s \in Slots : CreateLinkWriteStatus(s)
    \/ StartReadPending(RaceTokens, Chats, MaxInflight)
    \/ \E s \in Slots : StartWritePending(s)
    \/ \E s \in Slots : StartReadSubs(s)
    \/ \E s \in Slots : StartWriteSubs(s)
    \/ \E s \in Slots : StartReadStatus(s)
    \/ \E s \in Slots : StartWriteStatus(s)

SpecRaceShared == InitRace /\ [][NextRaceShared]_vars

\* C23: a consumed token stays consumed whatever else is in flight: it is
\* never written back into the pending-link store, and no second "/start"
\* with it confirms anything (its consumption record never changes).
C23_ConsumedStaysConsumed ==
    [][\A token \in DOMAIN consumed :
         /\ token \notin DOMAIN _read_json(pendingFile', EmptyDict)
         /\ token \in DOMAIN consumed'
         /\ consumed'[token] = consumed[token]]_vars

\* the documents as a request reading them now would see them
PendingDoc == _read_json(pendingFile, EmptyDict)
StatusDoc == _read_json(statusFile, EmptyDict)

\* C24: confirmed stays terminal whatever else is in flight: a record the
\* webhook has written as confirmed is still in the LinkStatus document, still
\* confirmed, after every step taken within its retention window.
C24_ConfirmedNotOverwritten ==
    [][\A token \in DOMAIN StatusDoc :
         (/\ Get(StatusDoc[token], "status", "") = "confirmed"
          /\ Get(StatusDoc[token], "confirmed_at", 0) + LINK_STATUS_RETENTION_SECONDS > now')
         => /\ token \in DOMAIN StatusDoc'
            /\ Get(StatusDoc'[token], "status", "") = "confirmed"]_vars

\* the request in slot s performs its write in this step
Writes(s, pc) ==
    /\ s \in DOMAIN inflight
    /\ inflight[s].pc = pc
    /\ s \in DOMAIN inflight' => inflight'[s].pc # pc

====
